---- MODULE Spec2Model ----
(***************************************************************************)
(* Health & Water Quality Dashboard (MyWebProject.py).                     *)
(*                                                                         *)
(* The module script builds two frames (health_df, water_df), merges them  *)
(* on Location into the canonical frame `data`, derives the Risk column,   *)
(* and then serves four Dash callbacks (update_tab, download_raw,          *)
(* download_summary, download_graph) that all read `data` through          *)
(* filter_data.                                                            *)
(*                                                                         *)
(* Representation.  A frame is a sequence of rows (records).  A Python     *)
(* string that is searched or split (Symptoms) is a sequence of one        *)
(* character strings; a Location is a TLA+ string.  A timestamp is a       *)
(* number of ticks, TicksPerDay ticks to the day; a '%Y-%m-%d' date string *)
(* is the day ordinal it denotes.  pH and Turbidity are in hundredths      *)
(* (round(..., 2)).  A mean is the pair <<sum, count>>.                    *)
(***************************************************************************)
EXTENDS Integers, Sequences, FiniteSets, TLC

VARIABLES
    health_df,              \* health_df                        (line 24-25)
    water_df,               \* water_df                         (line 38)
    data,                   \* data                             (line 41-42)
    pc,                     \* position of the module script: "merge", "risk", "serve"
    village_filter,         \* dcc.Dropdown 'village_filter'.value
    start_date,             \* dcc.DatePickerRange 'date_filter'.start_date (date string)
    end_date,               \* dcc.DatePickerRange 'date_filter'.end_date   (date string)
    tabs,                   \* dcc.Tabs 'tabs'.value
    n_clicks,               \* n_clicks of the four buttons
    triggered,              \* the input whose change caused the latest callbacks
    df,                     \* the frame filter_data returned to the latest callbacks
    tabs_content,           \* html.Div 'tabs-content'.children
    download_raw_data,      \* dcc.Download 'download_raw'.data     set by the latest event
    download_summary_data,  \* dcc.Download 'download_summary'.data set by the latest event
    download_graph_data     \* dcc.Download 'download_graph'.data   set by the latest event

vars == <<health_df, water_df, data, pc, village_filter, start_date, end_date,
          tabs, n_clicks, triggered, df, tabs_content, download_raw_data,
          download_summary_data, download_graph_data>>

uiVars == <<village_filter, start_date, end_date, tabs, n_clicks, triggered, df,
            tabs_content, download_raw_data, download_summary_data,
            download_graph_data>>

----------------------------------------------------------------------------
(* Bounds of the model *)

\* rows of health_df; the script generates 50 (range(1, 51))
NumRecords == 2

\* largest day offset of a record; the script draws random.randint(0, 30)
MaxOffset == 2

\* cap on each button's n_clicks
MaxClicks == 1

\* resolution of a timestamp within one day
TicksPerDay == 2

----------------------------------------------------------------------------
(* Program constants *)

villages == <<"Tripura", "Assam", "Megalaya", "Manipur", "sikkim">>

Diarrhea == <<"D", "i", "a", "r", "r", "h", "e", "a">>
Fever == <<"F", "e", "v", "e", "r">>
Vomiting == <<"V", "o", "m", "i", "t", "i", "n", "g">>
Stomach_Pain == <<"S", "t", "o", "m", "a", "c", "h", " ", "P", "a", "i", "n">>
Hepatitis == <<"H", "e", "p", "a", "t", "i", "t", "i", "s">>

symptoms_list == <<Diarrhea, Fever, Vomiting, Stomach_Pain, Hepatitis>>

MinAge == 1
MaxAge == 70
MinpH == 500
MaxpH == 900
MinTurbidity == 0
MaxTurbidity == 10000
MinBacterial == 50
MaxBacterial == 600
RiskThreshold == 300

\* the day datetime.today() falls on
Today == 40

\* str comparison orders the village names this way (upper case before lower
\* case); groupby('Location') sorts its group keys by it
LocationOrder == <<"Assam", "Manipur", "Megalaya", "Tripura", "sikkim">>

Tabs == {"tab1", "tab2", "tab3", "tab4"}
Buttons == {"btn_download_raw", "btn_download_summary", "btn_png", "btn_html"}

----------------------------------------------------------------------------
(* Helpers on sequences and strings *)

Range(s) == {s[i] : i \in 1..Len(s)}

RECURSIVE SumSeq(_)
SumSeq(s) == IF s = <<>> THEN 0 ELSE Head(s) + SumSeq(Tail(s))

RECURSIVE Flatten(_)
Flatten(ss) == IF ss = <<>> THEN <<>> ELSE Head(ss) \o Flatten(Tail(ss))

SetMin(S) == CHOOSE x \in S : \A y \in S : x <= y
SetMax(S) == CHOOSE x \in S : \A y \in S : y <= x

\* sep.join(parts)
RECURSIVE str_join(_, _)
str_join(sep, parts) ==
    IF parts = <<>> THEN <<>>
    ELSE IF Len(parts) = 1 THEN Head(parts)
    ELSE Head(parts) \o sep \o str_join(sep, Tail(parts))

\* sub in s
str_contains(sub, s) ==
    \E i \in 0..(Len(s) - Len(sub)) : SubSeq(s, i + 1, i + Len(sub)) = sub

\* s.split(sep) for a separator of one character
RECURSIVE str_split(_, _)
str_split(s, sep) ==
    IF \A i \in 1..Len(s) : s[i] # sep THEN <<s>>
    ELSE LET k == CHOOSE i \in 1..Len(s) :
                      s[i] = sep /\ \A j \in 1..(i - 1) : s[j] # sep
         IN  <<SubSeq(s, 1, k - 1)>> \o str_split(SubSeq(s, k + 1, Len(s)), sep)

----------------------------------------------------------------------------
(* Dates *)

\* datetime.strftime('%Y-%m-%d'): the date string of a timestamp drops the time of day
strftime(ts) == ts \div TicksPerDay

\* pd.to_datetime(date string): midnight of that day
to_datetime(d) == d * TicksPerDay

\* timedelta(days = n)
timedelta(n) == n * TicksPerDay

\* the timestamps datetime.today() can return
today == {Today * TicksPerDay + t : t \in 0..(TicksPerDay - 1)}

----------------------------------------------------------------------------
(* Synthetic data (lines 16-38) *)

\* random.sample(vocab, k) for k = random.randint(1, 2): k distinct symptoms of the
\* vocabulary, in either order
random_sample(vocab) ==
    {<<vocab[i]>> : i \in 1..Len(vocab)}
    \cup {<<vocab[p[1]], vocab[p[2]]>> :
            p \in {q \in (1..Len(vocab)) \X (1..Len(vocab)) : q[1] # q[2]}}

\* ','.join(random.sample(...)): the Symptoms strings a record can get
symptom_strings(vocab) == {str_join(<<",">>, c) : c \in random_sample(vocab)}

\* the rows the loop of lines 17-22 can append as row i, with the village, the age,
\* the symptoms and the day offset drawn from V, A, S and O; health_df['Date'] is
\* pd.to_datetime of the '%Y-%m-%d' string
health_rows(i, V, A, S, O) ==
    {[Patient_ID |-> i, Age |-> a, Symptoms |-> s, Location |-> v,
      Date |-> to_datetime(strftime(now - timedelta(o)))] :
        v \in V, a \in A, s \in S, o \in O, now \in today}

\* the frames health_df can be, n rows long
RECURSIVE health_frames(_, _, _, _, _)
health_frames(n, V, A, S, O) ==
    IF n = 0 THEN {<<>>}
    ELSE {Append(f, r) : f \in health_frames(n - 1, V, A, S, O),
                         r \in health_rows(n, V, A, S, O)}

\* values random.uniform / random.randint can give the water columns, one per village
pHSamples == <<MinpH, 725, MaxpH, 650, 810>>
TurbiditySamples == <<MinTurbidity, MaxTurbidity, 1234, 5050, 99>>
BacterialSamples ==
    <<MinBacterial, RiskThreshold, RiskThreshold + 1, MaxBacterial, RiskThreshold - 1>>

\* water_df (lines 30-38): one row per village, in the order of villages; k rotates
\* the sample values among the villages
water_frame(k) ==
    [i \in 1..Len(villages) |->
        LET j == ((i - 1 + k) % Len(villages)) + 1
        IN  [Location |-> villages[i], pH |-> pHSamples[j],
             Turbidity |-> TurbiditySamples[j],
             Bacterial_Count |-> BacterialSamples[j]]]

\* water_df with the bacterial count c drawn for village v
water_frame_with(v, c) ==
    [i \in 1..Len(villages) |->
        IF villages[i] = v THEN [water_frame(0)[i] EXCEPT !.Bacterial_Count = c]
        ELSE water_frame(0)[i]]

----------------------------------------------------------------------------
(* Merge and risk (lines 41-42) *)

\* a merge that pairs the rows by position instead of by Location
merge_by_position(left, right) ==
    [i \in 1..Len(left) |->
        LET r == right[((i - 1) % Len(right)) + 1]
        IN  [Patient_ID |-> left[i].Patient_ID, Age |-> left[i].Age,
             Symptoms |-> left[i].Symptoms, Location |-> left[i].Location,
             Date |-> left[i].Date, pH |-> r.pH, Turbidity |-> r.Turbidity,
             Bacterial_Count |-> r.Bacterial_Count]]

\* pd.merge(left, right, on='Location'), how='inner': for every left row in order,
\* one output row per right row with the same Location
merge(left, right) ==
    LET joined(l, r) ==
            [Patient_ID |-> l.Patient_ID, Age |-> l.Age, Symptoms |-> l.Symptoms,
             Location |-> l.Location, Date |-> l.Date, pH |-> r.pH,
             Turbidity |-> r.Turbidity, Bacterial_Count |-> r.Bacterial_Count]
        matches(l) ==
            LET m == SelectSeq(right, LAMBDA r : r.Location = l.Location)
            IN  [k \in 1..Len(m) |-> joined(l, m[k])]
    IN  Flatten([i \in 1..Len(left) |-> matches(left[i])])

\* the lambda with the threshold test >= instead of >
Risk_at_threshold(x) ==
    IF str_contains(Diarrhea, x.Symptoms) \/ x.Bacterial_Count >= RiskThreshold
    THEN 1 ELSE 0

\* lambda x: 1 if 'Diarrhea' in x['Symptoms'] or x['Bacterial_Count'] > 300 else 0
Risk(x) ==
    IF str_contains(Diarrhea, x.Symptoms) \/ x.Bacterial_Count > RiskThreshold
    THEN 1 ELSE 0

\* data.apply(..., axis=1) assigned to data['Risk']
apply_risk(d) ==
    [i \in 1..Len(d) |->
        [Patient_ID |-> d[i].Patient_ID, Age |-> d[i].Age, Symptoms |-> d[i].Symptoms,
         Location |-> d[i].Location, Date |-> d[i].Date, pH |-> d[i].pH,
         Turbidity |-> d[i].Turbidity, Bacterial_Count |-> d[i].Bacterial_Count,
         Risk |-> Risk(d[i])]]

----------------------------------------------------------------------------
(* filter_data (lines 92-97) *)

\* filter_data with the end of the range exclusive
filter_data_exclusive(d, selected_village, start, end) ==
    LET copy == d
        byVillage == IF selected_village # "All"
                     THEN SelectSeq(copy, LAMBDA r : r.Location = selected_village)
                     ELSE copy
    IN  SelectSeq(byVillage, LAMBDA r : /\ r.Date >= to_datetime(start)
                                        /\ r.Date < to_datetime(end))

\* filter_data returning the matching rows latest date first
filter_data_sorted(d, selected_village, start, end) ==
    LET copy == d
        byVillage == IF selected_village # "All"
                     THEN SelectSeq(copy, LAMBDA r : r.Location = selected_village)
                     ELSE copy
        kept == SelectSeq(byVillage, LAMBDA r : /\ r.Date >= to_datetime(start)
                                                /\ r.Date <= to_datetime(end))
        days == {strftime(r.Date) : r \in Range(kept)}
        hi == IF days = {} THEN 0 ELSE SetMax(days)
        lo == IF days = {} THEN 1 ELSE SetMin(days)
    IN  Flatten([k \in 1..(hi - lo + 1) |->
                    SelectSeq(kept, LAMBDA r : strftime(r.Date) = hi - k + 1)])

\* df = data.copy(); the village mask unless 'All'; then the inclusive date mask.
\* Boolean indexing keeps the rows in the order of the frame.
filter_data(d, selected_village, start, end) ==
    LET copy == d
        byVillage == IF selected_village # "All"
                     THEN SelectSeq(copy, LAMBDA r : r.Location = selected_village)
                     ELSE copy
    IN  SelectSeq(byVillage, LAMBDA r : /\ r.Date >= to_datetime(start)
                                        /\ r.Date <= to_datetime(end))

----------------------------------------------------------------------------
(* Aggregation and export *)

\* the group keys of groupby('Location'): the locations present, sorted
group_keys(d) ==
    SelectSeq(LocationOrder, LAMBDA l : \E i \in 1..Len(d) : d[i].Location = l)

\* one summary row for the rows g of location l
summary_row(l, g) ==
    [Location |-> l,
     Total_Cases |-> Len(g),
     High_Risk_Cases |-> SumSeq([i \in 1..Len(g) |-> g[i].Risk]),
     Avg_Bacterial_Count |-> <<SumSeq([i \in 1..Len(g) |-> g[i].Bacterial_Count]), Len(g)>>,
     Avg_pH |-> <<SumSeq([i \in 1..Len(g) |-> g[i].pH]), Len(g)>>]

\* the aggregation with the count taken over the Risk column's sum
groupby_agg_swapped(d) ==
    LET keys == group_keys(d)
    IN  [k \in 1..Len(keys) |->
            LET g == SelectSeq(d, LAMBDA r : r.Location = keys[k])
            IN  [summary_row(keys[k], g) EXCEPT
                    !.Total_Cases = SumSeq([i \in 1..Len(g) |-> g[i].Risk])]]

\* the aggregation over every village, present or not
groupby_agg_all(d) ==
    [k \in 1..Len(LocationOrder) |->
        summary_row(LocationOrder[k],
                    SelectSeq(d, LAMBDA r : r.Location = LocationOrder[k]))]

\* df.groupby('Location').agg(Total_Cases=('Patient_ID','count'),
\*     High_Risk_Cases=('Risk','sum'), Avg_Bacterial_Count=('Bacterial_Count','mean'),
\*     Avg_pH=('pH','mean')).reset_index()
groupby_agg(d) ==
    LET keys == group_keys(d)
    IN  [k \in 1..Len(keys) |->
            summary_row(keys[k], SelectSeq(d, LAMBDA r : r.Location = keys[k]))]

\* df.groupby('Location')['Risk'].sum().reset_index()
risk_count(d) ==
    LET keys == group_keys(d)
    IN  [k \in 1..Len(keys) |->
            LET g == SelectSeq(d, LAMBDA r : r.Location = keys[k])
            IN  [Location |-> keys[k],
                 Risk |-> SumSeq([i \in 1..Len(g) |-> g[i].Risk])]]

\* df['Symptoms'].dropna().str.split(',').sum() then pd.Series(...).value_counts():
\* occurrences per symptom.  The sum of an empty Series is 0, whose value_counts
\* is {0: 1}.
symptom_counts(d) ==
    IF d = <<>> THEN (0 :> 1)
    ELSE LET all_symptoms ==
                 Flatten([i \in 1..Len(d) |-> str_split(d[i].Symptoms, ",")])
         IN  [s \in Range(all_symptoms) |->
                 Cardinality({i \in 1..Len(all_symptoms) : all_symptoms[i] = s})]

RawColumns ==
    <<"Patient_ID", "Age", "Symptoms", "Location", "Date", "pH", "Turbidity",
      "Bacterial_Count", "Risk">>
SummaryColumns ==
    <<"Location", "Total_Cases", "High_Risk_Cases", "Avg_Bacterial_Count", "Avg_pH">>

\* to_csv writing neither header nor rows for an empty frame
to_csv_no_header(frame, columns) ==
    IF frame = <<>> THEN <<>>
    ELSE <<columns>> \o
         [i \in 1..Len(frame) |->
            [j \in 1..Len(columns) |->
                IF columns[j] = "Date" THEN strftime(frame[i][columns[j]])
                ELSE frame[i][columns[j]]]]

\* frame.to_csv(index=False): the header line, then one line per row with the
\* fields in column order; a timestamp is written as its date
to_csv(frame, columns) ==
    <<columns>> \o
    [i \in 1..Len(frame) |->
        [j \in 1..Len(columns) |->
            IF columns[j] = "Date" THEN strftime(frame[i][columns[j]])
            ELSE frame[i][columns[j]]]]

\* what a callback leaves in a dcc.Download it does not update
NoUpdate == [kind |-> "no_update"]

\* send_data_frame(writer, filename=..., index=False)
send_data_frame(csv, filename) ==
    [kind |-> "download", filename |-> filename, content |-> csv]

----------------------------------------------------------------------------
(* The callbacks (lines 102-229) *)

\* a callback returning None
None == [kind |-> "none"]

\* fig.write_image(buffer, format="png") / fig.write_html(buffer)
write_image(fig) == [format |-> "png", fig |-> fig]
write_html(fig) == [format |-> "html", fig |-> fig]

\* update_tab: the children of 'tabs-content'
update_tab(d, tab, selected_village, start, end) ==
    LET f == filter_data(d, selected_village, start, end)
        Graph(fig) == [component |-> "Graph", id |-> "graph", figure |-> fig]
    IN  IF f = <<>>
        THEN [component |-> "H3", children |-> "No data available for this filter."]
        ELSE IF tab = "tab1"
        THEN Graph([type |-> "pie", values |-> symptom_counts(f),
                    title |-> <<"Symptom Distribution", selected_village>>])
        ELSE IF tab = "tab2"
        THEN Graph([type |-> "bar", rows |-> risk_count(f),
                    title |-> <<"High-Risk Cases", selected_village>>])
        ELSE IF tab = "tab3"
        THEN Graph([type |-> "scatter",
                    points |-> [i \in 1..Len(f) |->
                                  [x |-> f[i].Bacterial_Count, y |-> f[i].Age,
                                   color |-> f[i].Risk, size |-> f[i].Risk,
                                   hover |-> <<f[i].Location, f[i].Symptoms>>]],
                    title |-> <<"Bacterial Count vs Age", selected_village>>])
        ELSE IF tab = "tab4"
        THEN Graph([type |-> "table", header |-> SummaryColumns,
                    rows |-> groupby_agg(f)])
        ELSE None

\* download_raw: n_clicks is received and not read
download_raw(d, clicks, selected_village, start, end) ==
    send_data_frame(to_csv(filter_data(d, selected_village, start, end), RawColumns),
                    "filtered_raw_data.csv")

\* download_summary: n_clicks is received and not read
download_summary(d, clicks, selected_village, start, end) ==
    send_data_frame(
        to_csv(groupby_agg(filter_data(d, selected_village, start, end)),
               SummaryColumns),
        "summary_data.csv")

\* download_graph: the figure of the tab, then PNG if btn_png > 0, else HTML if
\* btn_html > 0, else nothing
download_graph(d, btn_png, btn_html, tab, selected_village, start, end) ==
    LET f == filter_data(d, selected_village, start, end)
        fig == IF tab = "tab1" THEN [type |-> "pie", values |-> symptom_counts(f)]
               ELSE IF tab = "tab2" THEN [type |-> "bar", rows |-> risk_count(f)]
               ELSE IF tab = "tab3"
               THEN [type |-> "scatter",
                     points |-> [i \in 1..Len(f) |->
                                   [x |-> f[i].Bacterial_Count, y |-> f[i].Age,
                                    color |-> f[i].Risk, size |-> f[i].Risk]]]
               ELSE [type |-> "table", header |-> SummaryColumns,
                     rows |-> groupby_agg(f)]
        filename == IF tab = "tab1" THEN "symptoms_chart"
                    ELSE IF tab = "tab2" THEN "risk_chart"
                    ELSE IF tab = "tab3" THEN "scatter_chart"
                    ELSE "summary_table"
    IN  IF btn_png > 0
        THEN [kind |-> "download", filename |-> <<filename, ".png">>,
              content |-> write_image(fig)]
        ELSE IF btn_html > 0
        THEN [kind |-> "download", filename |-> <<filename, ".html">>,
              content |-> write_html(fig)]
        ELSE None

\* the Input lists of the four @app.callback decorators
update_tab_inputs ==
    {"tabs", "village_filter", "date_filter.start_date", "date_filter.end_date"}
download_raw_inputs ==
    {"btn_download_raw", "village_filter", "date_filter.start_date",
     "date_filter.end_date"}
download_summary_inputs ==
    {"btn_download_summary", "village_filter", "date_filter.start_date",
     "date_filter.end_date"}
download_graph_inputs ==
    {"btn_png", "btn_html", "tabs", "village_filter", "date_filter.start_date",
     "date_filter.end_date"}

\* the callbacks with filter_data working on `data` itself instead of a copy
FireCallbacks_in_place(trig, tab, village, start, end, clicks) ==
    /\ triggered' = trig
    /\ df' = filter_data(data, village, start, end)
    /\ tabs_content' =
          IF trig \in update_tab_inputs \cup {"load"}
          THEN update_tab(data, tab, village, start, end)
          ELSE tabs_content
    /\ download_raw_data' =
          IF trig \in download_raw_inputs
          THEN download_raw(data, clicks["btn_download_raw"], village, start, end)
          ELSE NoUpdate
    /\ download_summary_data' =
          IF trig \in download_summary_inputs
          THEN download_summary(data, clicks["btn_download_summary"], village, start, end)
          ELSE NoUpdate
    /\ download_graph_data' =
          IF trig \in download_graph_inputs
          THEN download_graph(data, clicks["btn_png"], clicks["btn_html"], tab, village,
                              start, end)
          ELSE NoUpdate
    /\ data' = filter_data(data, village, start, end)
    /\ UNCHANGED <<health_df, water_df, pc>>

\* Dash runs every callback that lists the changed property `trig` as an Input, with
\* the current values of its Inputs; each sets its Output.  A dcc.Download whose
\* callback did not run is not updated.  No callback assigns to data, health_df or
\* water_df: filter_data works on data.copy().
FireCallbacks(trig, tab, village, start, end, clicks) ==
    /\ triggered' = trig
    /\ df' = filter_data(data, village, start, end)
    /\ tabs_content' =
          IF trig \in update_tab_inputs \cup {"load"}
          THEN update_tab(data, tab, village, start, end)
          ELSE tabs_content
    /\ download_raw_data' =
          IF trig \in download_raw_inputs
          THEN download_raw(data, clicks["btn_download_raw"], village, start, end)
          ELSE NoUpdate
    /\ download_summary_data' =
          IF trig \in download_summary_inputs
          THEN download_summary(data, clicks["btn_download_summary"], village, start, end)
          ELSE NoUpdate
    /\ download_graph_data' =
          IF trig \in download_graph_inputs
          THEN download_graph(data, clicks["btn_png"], clicks["btn_html"], tab, village,
                              start, end)
          ELSE NoUpdate
    /\ UNCHANGED <<health_df, water_df, data, pc>>

----------------------------------------------------------------------------
(* The module script as steps *)

Unset == "unset"

\* line 41: data = pd.merge(health_df, water_df, on='Location')
Merge ==
    /\ pc = "merge"
    /\ data' = merge(health_df, water_df)
    /\ pc' = "risk"
    /\ UNCHANGED <<health_df, water_df>>
    /\ UNCHANGED uiVars

\* line 42: data['Risk'] = data.apply(...)
Classify ==
    /\ pc = "risk"
    /\ data' = apply_risk(data)
    /\ pc' = "layout"
    /\ UNCHANGED <<health_df, water_df>>
    /\ UNCHANGED uiVars

\* the values app.layout gives the components (lines 49-87)
LayoutValues ==
    /\ village_filter' = "All"
    /\ start_date' = strftime(SetMin({data[i].Date : i \in 1..Len(data)}))
    /\ end_date' = strftime(SetMax({data[i].Date : i \in 1..Len(data)}))
    /\ tabs' = "tab1"
    /\ n_clicks' = [b \in Buttons |-> 0]

\* lines 47-87: app = Dash(...); app.layout = ...
Layout ==
    /\ pc = "layout"
    /\ LayoutValues
    /\ pc' = "serve"
    /\ UNCHANGED <<health_df, water_df, data, triggered, df, tabs_content,
                   download_raw_data, download_summary_data, download_graph_data>>

\* the script before line 41, with health_df among H and water_df among W
InitScript(H, W) ==
    /\ health_df \in H
    /\ water_df \in W
    /\ data = <<>>
    /\ pc = "merge"
    /\ village_filter = Unset
    /\ start_date = Unset
    /\ end_date = Unset
    /\ tabs = Unset
    /\ n_clicks = [b \in Buttons |-> 0]
    /\ triggered = Unset
    /\ df = <<>>
    /\ tabs_content = NoUpdate
    /\ download_raw_data = NoUpdate
    /\ download_summary_data = NoUpdate
    /\ download_graph_data = NoUpdate

\* the script at app.run, with health_df among H and water_df among W
InitServe(H, W) ==
    /\ health_df \in H
    /\ water_df \in W
    /\ data = apply_risk(merge(health_df, water_df))
    /\ pc = "serve"
    /\ village_filter = "All"
    /\ start_date = strftime(SetMin({data[i].Date : i \in 1..Len(data)}))
    /\ end_date = strftime(SetMax({data[i].Date : i \in 1..Len(data)}))
    /\ tabs = "tab1"
    /\ n_clicks = [b \in Buttons |-> 0]
    /\ triggered = Unset
    /\ df = <<>>
    /\ tabs_content = NoUpdate
    /\ download_raw_data = NoUpdate
    /\ download_summary_data = NoUpdate
    /\ download_graph_data = NoUpdate

----------------------------------------------------------------------------
(* The user's events *)

\* the dates the picker offers
PickerDates == (Today - MaxOffset)..Today

\* a browser loads the page: update_tab runs; the downloads have
\* prevent_initial_call=True
PageLoad ==
    /\ pc = "serve"
    /\ pc' = "ready"
    /\ triggered' = "load"
    /\ df' = filter_data(data, village_filter, start_date, end_date)
    /\ tabs_content' = update_tab(data, tabs, village_filter, start_date, end_date)
    /\ UNCHANGED <<health_df, water_df, data, village_filter, start_date, end_date,
                   tabs, n_clicks, download_raw_data, download_summary_data,
                   download_graph_data>>

ChangeTab ==
    /\ pc = "ready"
    /\ \E t \in Tabs \ {tabs} :
        /\ tabs' = t
        /\ FireCallbacks("tabs", t, village_filter, start_date, end_date, n_clicks)
    /\ UNCHANGED <<village_filter, start_date, end_date, n_clicks>>

ChangeVillage ==
    /\ pc = "ready"
    /\ \E v \in ({"All"} \cup Range(villages)) \ {village_filter} :
        /\ village_filter' = v
        /\ FireCallbacks("village_filter", tabs, v, start_date, end_date, n_clicks)
    /\ UNCHANGED <<start_date, end_date, tabs, n_clicks>>

ChangeStartDate ==
    /\ pc = "ready"
    /\ \E s \in PickerDates \ {start_date} :
        /\ start_date' = s
        /\ FireCallbacks("date_filter.start_date", tabs, village_filter, s, end_date,
                         n_clicks)
    /\ UNCHANGED <<village_filter, end_date, tabs, n_clicks>>

ChangeEndDate ==
    /\ pc = "ready"
    /\ \E e \in PickerDates \ {end_date} :
        /\ end_date' = e
        /\ FireCallbacks("date_filter.end_date", tabs, village_filter, start_date, e,
                         n_clicks)
    /\ UNCHANGED <<village_filter, start_date, tabs, n_clicks>>

\* a click on button b: n_clicks goes up by one
Click(b) ==
    /\ pc = "ready"
    /\ n_clicks[b] < MaxClicks
    /\ n_clicks' = [n_clicks EXCEPT ![b] = @ + 1]
    /\ FireCallbacks(b, tabs, village_filter, start_date, end_date, n_clicks')
    /\ UNCHANGED <<village_filter, start_date, end_date, tabs>>

ClickDownloadRaw == Click("btn_download_raw")
ClickDownloadSummary == Click("btn_download_summary")
ClickPng == Click("btn_png")
ClickHtml == Click("btn_html")

----------------------------------------------------------------------------
(* Specifications *)

NextScript == Merge \/ Classify \/ Layout

NextFilters == PageLoad \/ ChangeVillage \/ ChangeStartDate \/ ChangeEndDate

Next ==
    \/ PageLoad
    \/ ChangeTab
    \/ ChangeVillage
    \/ ChangeStartDate
    \/ ChangeEndDate
    \/ ClickDownloadRaw
    \/ ClickDownloadSummary
    \/ ClickPng
    \/ ClickHtml

\* the script run on one record with every Symptoms string and every bacterial count
\* of the record's village
InitRisk ==
    \E v \in Range(villages), c \in MinBacterial..MaxBacterial :
        InitScript(health_frames(1, {v}, {MinAge}, symptom_strings(symptoms_list), {0}),
                   {water_frame_with(v, c)})

SpecRisk == InitRisk /\ [][NextScript]_vars

\* the script run on NumRecords records over all villages
InitJoin ==
    InitScript(health_frames(NumRecords, Range(villages), {MinAge},
                             {Fever, str_join(<<",">>, <<Diarrhea, Fever>>)},
                             {0, MaxOffset}),
               {water_frame(0), water_frame(1)})

SpecJoin == InitJoin /\ [][NextScript]_vars

\* a served dashboard whose filters change, over datasets of NumRecords records in
\* two villages
InitFilters ==
    InitServe(health_frames(NumRecords, {"Assam", "Megalaya"}, {MinAge},
                            {Diarrhea, Fever}, {0, 1, MaxOffset}),
              {water_frame(0)})

SpecFilters == InitFilters /\ [][NextFilters]_vars

\* a served dashboard under every event, over the dataset whose first record is of
\* Assam and whose other records are of sikkim, all dated today
Init ==
    InitServe({f \in health_frames(NumRecords, {"Assam", "sikkim"}, {MaxAge},
                                   {str_join(<<",">>, <<Fever, Diarrhea>>)}, {0}) :
                  /\ f[1].Location = "Assam"
                  /\ \A i \in 2..Len(f) : f[i].Location = "sikkim"},
              {water_frame(0)})

Spec == Init /\ [][Next]_vars

----------------------------------------------------------------------------
(* Properties *)

\* the rows of a CSV below its header, and the field of a line under a column
CsvRows(csv) == Tail(csv)
Field(line, columns, name) == line[CHOOSE j \in 1..Len(columns) : columns[j] = name]

\* the request of the latest callbacks matches row r
Requested(r) ==
    /\ village_filter = "All" \/ r.Location = village_filter
    /\ start_date <= strftime(r.Date)
    /\ strftime(r.Date) <= end_date

\* C1: filter_data returns exactly the records of the dataset whose Location is the
\* selected village (every record for 'All') and whose Date lies in
\* [start_date, end_date], both ends included: a record dated start_date = end_date
\* is returned, a record dated the day before start_date is not, and nothing
\* outside the predicate is returned.
C1_FilterExact ==
    pc = "ready" =>
        /\ Range(df) = {r \in Range(data) : Requested(r)}
        /\ Len(df) = Cardinality({i \in 1..Len(data) : Requested(data[i])})
        /\ \A r \in Range(data) :
              /\ (village_filter \in {"All", r.Location}
                    /\ strftime(r.Date) = start_date /\ start_date = end_date)
                 => r \in Range(df)
              /\ strftime(r.Date) = start_date - 1 => r \notin Range(df)

\* a request for one day returns the record of that day and leaves out a record of
\* the requested village dated the day before
C1_Witness ==
    /\ pc = "ready"
    /\ start_date = end_date
    /\ \E r \in Range(df) : strftime(r.Date) = start_date
    /\ \E r \in Range(data) :
          /\ village_filter \in {"All", r.Location}
          /\ strftime(r.Date) = start_date - 1
          /\ r \notin Range(df)

\* C2: the Total_Cases of the summary download add up to the number of records
\* filter_data returned for the same request.
C2_TotalsAddUp ==
    download_summary_data.kind = "download" =>
        LET rows == CsvRows(download_summary_data.content)
        IN  SumSeq([i \in 1..Len(rows) |-> Field(rows[i], SummaryColumns, "Total_Cases")])
              = Len(df)

\* a summary of two locations over at least two records
C2_Witness ==
    /\ download_summary_data.kind = "download"
    /\ Len(CsvRows(download_summary_data.content)) >= 2
    /\ Len(df) >= 2

\* C3: the summary has exactly one row per location present in the filtered records
\* and none for a location without filtered records; Total_Cases is the number of
\* filtered records of the location (at least 1) and High_Risk_Cases the number of
\* those with Risk set (between 0 and Total_Cases).
C3_SummaryRows ==
    download_summary_data.kind = "download" =>
        LET rows == CsvRows(download_summary_data.content)
            loc(i) == Field(rows[i], SummaryColumns, "Location")
            total(i) == Field(rows[i], SummaryColumns, "Total_Cases")
            high(i) == Field(rows[i], SummaryColumns, "High_Risk_Cases")
            at(l) == {k \in 1..Len(df) : df[k].Location = l}
        IN  /\ {loc(i) : i \in 1..Len(rows)} = {r.Location : r \in Range(df)}
            /\ \A i, j \in 1..Len(rows) : loc(i) = loc(j) => i = j
            /\ \A i \in 1..Len(rows) :
                  /\ total(i) = Cardinality(at(loc(i)))
                  /\ high(i) = Cardinality({k \in at(loc(i)) : df[k].Risk = 1})
                  /\ total(i) >= 1
                  /\ 0 <= high(i) /\ high(i) <= total(i)

\* a summary row whose location has a high-risk and a low-risk record, while another
\* village of the dataset has no filtered record
C3_Witness ==
    /\ download_summary_data.kind = "download"
    /\ \E line \in Range(CsvRows(download_summary_data.content)) :
          /\ Field(line, SummaryColumns, "High_Risk_Cases") = 1
          /\ Field(line, SummaryColumns, "Total_Cases") = 2
    /\ Len(CsvRows(download_summary_data.content)) = 1

\* the symptoms of a joined record
SymptomsOf(r) == Range(str_split(r.Symptoms, ","))

\* C4: Risk is 1 exactly when Diarrhea is one of the record's symptoms or the
\* Bacterial_Count of the record's location is above 300, and 0 otherwise; a count
\* of exactly 300 without Diarrhea gives 0.
C4_RiskRule ==
    pc \in {"layout", "serve"} =>
        \A r \in Range(data) :
            LET count == (CHOOSE w \in Range(water_df) :
                              w.Location = r.Location).Bacterial_Count
            IN  /\ r.Risk \in {0, 1}
                /\ r.Risk = 1 <=> (Diarrhea \in SymptomsOf(r) \/ count > 300)
                /\ (count = 300 /\ Diarrhea \notin SymptomsOf(r)) => r.Risk = 0

\* a classified record of two symptoms without Diarrhea at a count of exactly 300
C4_Witness ==
    /\ pc = "serve"
    /\ \E r \in Range(data) :
          /\ r.Bacterial_Count = 300
          /\ Cardinality(SymptomsOf(r)) = 2
          /\ Diarrhea \notin SymptomsOf(r)
          /\ r.Risk = 0

\* C5: data is the inner join of health_df and water_df on Location: every row's
\* Location has a water sample and the row carries that sample's pH, Turbidity and
\* Bacterial_Count; every health record whose Location has a sample appears exactly
\* once, with its own fields; a health record whose Location has none is absent.
C5_InnerJoin ==
    pc # "merge" =>
        /\ \A r \in Range(data) :
              \E w \in Range(water_df) :
                  /\ w.Location = r.Location
                  /\ r.pH = w.pH
                  /\ r.Turbidity = w.Turbidity
                  /\ r.Bacterial_Count = w.Bacterial_Count
        /\ \A h \in Range(health_df) :
              LET rows == {i \in 1..Len(data) : data[i].Patient_ID = h.Patient_ID}
              IN  IF \E w \in Range(water_df) : w.Location = h.Location
                  THEN /\ Cardinality(rows) = 1
                       /\ \A i \in rows :
                             /\ data[i].Age = h.Age
                             /\ data[i].Symptoms = h.Symptoms
                             /\ data[i].Location = h.Location
                             /\ data[i].Date = h.Date
                  ELSE rows = {}

\* a joined dataset with records of two villages carrying different water samples
C5_Witness ==
    /\ pc = "serve"
    /\ \E i, j \in 1..Len(data) :
          /\ data[i].Location # data[j].Location
          /\ data[i].Bacterial_Count # data[j].Bacterial_Count
          /\ data[i].pH # data[j].pH

\* C6: filter_data is a stable filter: the returned records are records of the
\* dataset, none twice, in the relative order they have in the dataset.
C6_StableOrder ==
    pc = "ready" =>
        LET pos(r) == CHOOSE k \in 1..Len(data) : data[k] = r
        IN  /\ \A i \in 1..Len(df) : df[i] \in Range(data)
            /\ \A i, j \in 1..Len(df) : i < j => pos(df[i]) < pos(df[j])

\* two records returned, the earlier in the dataset being the later in date
C6_Witness ==
    /\ pc = "ready"
    /\ Len(df) >= 2
    /\ df[1].Date < df[2].Date
    /\ df[1].Patient_ID < df[2].Patient_ID

\* C7: when no record matches the request, filter_data returns an empty frame and
\* the raw and the summary download are still produced, each holding its header
\* line only.
C7_EmptyExports ==
    (triggered \in download_raw_inputs \cap download_summary_inputs /\ df = <<>>) =>
        /\ {r \in Range(data) : Requested(r)} = {}
        /\ download_raw_data.kind = "download"
        /\ download_raw_data.content = <<RawColumns>>
        /\ download_summary_data.kind = "download"
        /\ download_summary_data.content = <<SummaryColumns>>

\* a village without records is selected, over a date range that holds records
C7_Witness ==
    /\ triggered = "village_filter"
    /\ df = <<>>
    /\ village_filter = "sikkim"
    /\ \E r \in Range(data) : start_date <= strftime(r.Date) /\ strftime(r.Date) <= end_date
    /\ download_raw_data.kind = "download"

\* C8: no filter, tab or download request changes data, so filter_data called again
\* with the request just served returns the same records as before.
C8_DataUnchanged ==
    [][/\ data' = data
       /\ filter_data(data', village_filter', start_date', end_date') = df']_vars

\* every button clicked, with the tab and the filters changed so that a record is
\* filtered out
C8_Witness ==
    /\ pc = "ready"
    /\ \A b \in Buttons : n_clicks[b] > 0
    /\ tabs # "tab1"
    /\ village_filter # "All"
    /\ Len(df) < Len(data)
    /\ df # <<>>

\* C9: the graph download has the format of the button whose click caused it.
C9_FormatOfClickedButton ==
    /\ triggered = "btn_html" =>
          /\ download_graph_data.kind = "download"
          /\ download_graph_data.content.format = "html"
          /\ download_graph_data.filename[2] = ".html"
    /\ triggered = "btn_png" =>
          /\ download_graph_data.kind = "download"
          /\ download_graph_data.content.format = "png"
          /\ download_graph_data.filename[2] = ".png"

\* C10: a download is emitted only by callbacks that a click on its own button
\* caused.
C10_DownloadOnlyOnOwnClick ==
    /\ download_raw_data.kind = "download" => triggered = "btn_download_raw"
    /\ download_summary_data.kind = "download" => triggered = "btn_download_summary"
    /\ download_graph_data.kind = "download" => triggered \in {"btn_png", "btn_html"}

====
